---- MODULE Spec2Model ----
(***************************************************************************)
(* A model of lms/djangoapps/courseware/user_state_client.py:              *)
(* DjangoXBlockUserStateClient over the StudentModule table.               *)
(*                                                                         *)
(* The table is a sequence of rows (a row's id is its position: rows are   *)
(* never removed), the history log is one sequence of entries per row, and *)
(* every caller (a process or thread using its own client) is a process    *)
(* that is idle, inside one call of the client, or holding the result of   *)
(* the call it has just finished.                                          *)
(***************************************************************************)
EXTENDS Integers, Sequences, FiniteSets, TLC

(* ------------------------------ bounds -------------------------------- *)

\* Calls started in one behaviour of the concurrent specification.
MaxCalls == 2
\* Calls started in one behaviour of the single-caller specification.
MaxSeqCalls == 2
\* Pairs in one set_many batch, keys in one delete_many list.
MaxBatch == 2
\* The page sizes (settings.USER_STATE_BATCH_SIZE) the scans are run with.
MaxPageSize == 2
\* Writing calls started while the tables of the scan specification are
\* scanned.
MaxScanWrites == 1
\* Writing calls started in one behaviour of the stored-rows specification.
MaxStoredCalls == 2
\* Writing calls started in one behaviour of the racing-writers
\* specification.
MaxRaceCalls == 2

(* ------------------------------ values -------------------------------- *)

Procs == {"p1", "p2"}

\* The users of the directory; the anonymous principal has the empty username.
Usernames == {"alice", "bob"}
AnonUsername == ""

UsageKeys == {"k1", "k2"}
ContextOrder == <<"c1", "c2">>

context_key(k) == IF k = "k1" THEN "c1" ELSE "c2"

key_block_type(k) == IF k = "k1" THEN "problem" ELSE "html"

Scope_user_state == "user_state"
Scopes == {"user_state", "preferences", "user_info"}

FieldOrder == <<"a", "b">>
FieldNames == {"a", "b"}
FieldValues == {1, 2}

\* Python's None and a present value.
None == [none |-> TRUE]
Some(v) == [none |-> FALSE, val |-> v]

\* A Python dict of fields: a function of a set of field names.
EmptyDict == <<>>
Dicts == UNION {[D -> FieldValues] : D \in SUBSET FieldNames}

\* The `fields` argument: None, or a list of field names.
FieldsArgs == {None} \cup {Some(F) : F \in SUBSET FieldNames}

(* ------------------------------- json --------------------------------- *)

\* json.dumps of a dict: the text of a JSON object, as the sequence of its
\* <<name, value>> members; "{}" is the empty sequence.
dumps(d) ==
    LET names == SelectSeq(FieldOrder, LAMBDA n : n \in DOMAIN d)
    IN  [i \in 1..Len(names) |-> <<names[i], d[names[i]]>>]

\* json.loads of the text of a JSON object: the last member of a name wins.
loads(t) ==
    [n \in {t[i][1] : i \in DOMAIN t} |->
        LET last == CHOOSE i \in DOMAIN t :
                        /\ t[i][1] = n
                        /\ \A j \in DOMAIN t : t[j][1] = n => j <= i
        IN  t[last][2]]

\* The literal "{}" that delete_many stores.
EmptyObjectText == <<>>

\* A bug: the new fields replace the stored ones.
update_replacing(d, s) == s

\* dict.update
update(d, s) ==
    [n \in DOMAIN d \cup DOMAIN s |-> IF n \in DOMAIN s THEN s[n] ELSE d[n]]

(* ------------------------------ state --------------------------------- *)

VARIABLES
    db,      \* the StudentModule table: a sequence of rows
    hist,    \* the history log: hist[id] is the entries of row id, oldest first
    now,     \* the storage clock: one tick per write
    ncalls,  \* calls started so far
    pc,      \* pc[p]: where process p is
    call,    \* call[p]: the call p is in, with its arguments
    loc,     \* loc[p]: the local variables of p's call
    ret,     \* ret[p]: how p's last call ended and what it yielded
    pre      \* pre[p]: the table as it was when p's call started

vars == <<db, hist, now, ncalls, pc, call, loc, ret, pre>>

NoCall ==
    [op |-> "none", client_user |-> "None", username |-> AnonUsername,
     items |-> <<>>, keys |-> <<>>, fields |-> None, scope |-> Scope_user_state,
     course_key |-> "", block_type |-> None, per_page |-> 0]

NoLoc ==
    [idx |-> 0, sm_id |-> 0, sm_state |-> None, groups |-> <<>>, rows |-> <<>>,
     count |-> 0, page |-> 0, out |-> <<>>, warnings |-> <<>>]

NoRet == [status |-> "none", out |-> <<>>, warnings |-> <<>>]

\* The (user, key) pairs in a fixed order, for the rows that exist initially.
PairOrder ==
    << <<"alice", "k1">>, <<"alice", "k2">>, <<"bob", "k1">>, <<"bob", "k2">> >>

\* A row another part of the platform created and this client never wrote:
\* its state is None.
UntouchedRow(pair) ==
    [student |-> pair[1], course_id |-> context_key(pair[2]),
     module_state_key |-> pair[2], module_type |-> key_block_type(pair[2]),
     state |-> None, modified |-> 0]

Init ==
    /\ \E U \in SUBSET {<<"alice", "k1">>, <<"bob", "k2">>} :
           db = LET present == SelectSeq(PairOrder, LAMBDA pr : pr \in U)
                IN  [i \in 1..Len(present) |-> UntouchedRow(present[i])]
    /\ hist = [i \in 1..Len(db) |-> <<>>]
    /\ now = 0
    /\ ncalls = 0
    /\ pc = [p \in Procs |-> "idle"]
    /\ call = [p \in Procs |-> NoCall]
    /\ loc = [p \in Procs |-> NoLoc]
    /\ ret = [p \in Procs |-> NoRet]
    /\ pre = [p \in Procs |-> <<>>]

(* --------------------------- the storage ------------------------------ *)

\* The ids of the rows of a user and a usage key.
RowIds(rows, username, key) ==
    {i \in DOMAIN rows :
        /\ rows[i].student = username
        /\ rows[i].course_id = context_key(key)
        /\ rows[i].module_state_key = key}

MinOf(S) == CHOOSE i \in S : \A j \in S : i <= j

\* The ids of S in increasing order.
RECURSIVE SortedIds(_)
SortedIds(S) ==
    IF S = {} THEN <<>> ELSE <<MinOf(S)>> \o SortedIds(S \ {MinOf(S)})

\* A history entry of the state a write leaves in a row.
HistoryEntry(state, created) == [state |-> state, created |-> created]

\* The contexts of a list of keys, each once, in sorted order:
\* groupby(sorted(block_keys, key=context_key), context_key).
by_context(block_keys) ==
    SelectSeq(ContextOrder,
              LAMBDA c : \E i \in DOMAIN block_keys : context_key(block_keys[i]) = c)

\* A bug: the query is filtered by the user alone.
GroupQuery_any_key(rows, username, block_keys, context) ==
    SortedIds({i \in DOMAIN rows : rows[i].student = username})

\* A bug: the query is not filtered by the user.
GroupQuery_any_student(rows, username, block_keys, context) ==
    SortedIds({i \in DOMAIN rows :
        /\ rows[i].course_id = context
        /\ \E j \in DOMAIN block_keys :
              /\ context_key(block_keys[j]) = context
              /\ rows[i].module_state_key = block_keys[j]})

\* The query of one group: the ids, in id order, of the rows of the user in
\* the context whose key is one of the group's.
GroupQuery(rows, username, block_keys, context) ==
    SortedIds({i \in DOMAIN rows :
        /\ rows[i].student = username
        /\ rows[i].course_id = context
        /\ \E j \in DOMAIN block_keys :
              /\ context_key(block_keys[j]) = context
              /\ rows[i].module_state_key = block_keys[j]})

\* _get_student_modules read to its end on one table: group after group.
RECURSIVE QueryGroups(_, _, _, _)
QueryGroups(rows, username, block_keys, groups) ==
    IF groups = <<>> THEN <<>>
    ELSE GroupQuery(rows, username, block_keys, Head(groups))
            \o QueryGroups(rows, username, block_keys, Tail(groups))

_get_student_modules(rows, username, block_keys) ==
    QueryGroups(rows, username, block_keys, by_context(block_keys))

\* BaseStudentModuleHistory.get_history: the entries of the rows, the most
\* recent first.
RECURSIVE Reversed(_)
Reversed(s) == IF s = <<>> THEN <<>> ELSE Reversed(Tail(s)) \o <<Head(s)>>

RECURSIVE HistoryOf(_, _)
HistoryOf(log, ids) ==
    IF ids = <<>> THEN <<>>
    ELSE HistoryOf(log, Tail(ids)) \o
         [i \in 1..Len(log[Head(ids)]) |->
             [csm |-> Head(ids), state |-> log[Head(ids)][i].state,
              created |-> log[Head(ids)][i].created]]

BaseStudentModuleHistory_get_history(log, ids) == Reversed(HistoryOf(log, ids))

\* The read-model.
XBlockUserState(username, block_key, state, updated, scope) ==
    [username |-> username, block_key |-> block_key, state |-> state,
     updated |-> updated, scope |-> scope]

(* ----------------------------- the calls ------------------------------ *)

\* A call of process p starts: the arguments are bound and the table as the
\* call finds it is remembered. The writing calls are counted.
Begin(p, limit, c) ==
    /\ pc[p] = "idle"
    /\ IF c.op \in {"set_many", "delete_many"}
       THEN ncalls < limit /\ ncalls' = ncalls + 1
       ELSE ncalls' = ncalls
    /\ call' = [call EXCEPT ![p] = c]
    /\ pre' = [pre EXCEPT ![p] = db]

\* The call of process p ends: it raises `status`, or returns ("ok"), having
\* yielded `out` and logged `warnings`.
EndLogged(p, status, out, warnings) ==
    /\ pc' = [pc EXCEPT ![p] = "ret"]
    /\ ret' = [ret EXCEPT ![p] =
                  [status |-> status, out |-> out, warnings |-> warnings]]
    /\ loc' = [loc EXCEPT ![p] = NoLoc]

End(p, status, out) == EndLogged(p, status, out, <<>>)

\* A bug: the scope is not looked at.
UnsupportedScope_never(scope) == FALSE

\* The scope check every operation starts with.
UnsupportedScope(scope) == scope # Scope_user_state

\* The caller takes the result and is idle again.
Return(p) ==
    /\ pc[p] = "ret"
    /\ pc' = [pc EXCEPT ![p] = "idle"]
    /\ call' = [call EXCEPT ![p] = NoCall]
    /\ ret' = [ret EXCEPT ![p] = NoRet]
    /\ pre' = [pre EXCEPT ![p] = <<>>]
    /\ UNCHANGED <<db, hist, now, ncalls, loc>>

(* ------------------------------ set_many ------------------------------ *)

\* The user set_many writes for: self.user when its username is the one
\* asked for, else the directory's user of that name.
ResolveUser(client_user, username) ==
    IF client_user = "AnonymousUser" /\ username = AnonUsername
    THEN "AnonymousUser"
    ELSE IF username \in Usernames THEN username ELSE "User.DoesNotExist"

\* A bug: the anonymous guard is missing.
is_anonymous_never(user) == FALSE

is_anonymous(user) == user = "AnonymousUser"

\* The storage rejects an UPDATE only in a race with another writer.
UpdateMayBeRejected(p) ==
    \E q \in Procs \ {p} :
        pc[q] \in {"goc_get", "goc_create", "save", "del_read", "del_save"}

\* set_many up to its loop: the scope check, the user, the anonymous guard.
SetManyCall(p, limit, client_user, username, items, scope) ==
    /\ Begin(p, limit,
             [NoCall EXCEPT !.op = "set_many", !.client_user = client_user,
                            !.username = username, !.items = items,
                            !.scope = scope])
    /\ LET user == ResolveUser(client_user, username)
       IN  IF UnsupportedScope(scope)
           THEN End(p, "ValueError", <<>>)
           ELSE IF user = "User.DoesNotExist"
           THEN End(p, "User.DoesNotExist", <<>>)
           ELSE IF is_anonymous(user) \/ items = <<>>
           THEN End(p, "ok", <<>>)
           ELSE /\ pc' = [pc EXCEPT ![p] = "goc_get"]
                /\ loc' = [loc EXCEPT ![p] = [NoLoc EXCEPT !.idx = 1]]
                /\ ret' = ret
    /\ UNCHANGED <<db, hist, now>>

\* The loop of set_many goes to the pair after loc[p].idx, or the call
\* returns; `warnings` is what the call has logged so far.
NextPair(p, warnings) ==
    IF loc[p].idx < Len(call[p].items)
    THEN /\ pc' = [pc EXCEPT ![p] = "goc_get"]
         /\ loc' = [loc EXCEPT ![p] = [NoLoc EXCEPT !.idx = loc[p].idx + 1,
                                                    !.warnings = warnings]]
         /\ ret' = ret
    ELSE EndLogged(p, "ok", <<>>, warnings)

\* A bug: the race is logged and the loop goes on with the next pair.
OnCreateIntegrityError_continues(p, usage_key) ==
    NextPair(p, Append(loc[p].warnings, <<"get_or_create", usage_key>>))

\* What set_many does when get_or_create raises IntegrityError: it logs a
\* warning, and returns.
OnCreateIntegrityError(p, usage_key) ==
    EndLogged(p, "ok", <<>>,
              Append(loc[p].warnings, <<"get_or_create", usage_key>>))

\* get_or_create, its SELECT: the row is found (created is False), or it is
\* not and the INSERT follows.
GetOrCreateGet(p) ==
    /\ pc[p] = "goc_get"
    /\ LET key == call[p].items[loc[p].idx][1]
           ids == RowIds(db, call[p].username, key)
       IN  IF ids # {}
           THEN /\ pc' = [pc EXCEPT ![p] = "save"]
                /\ loc' = [loc EXCEPT ![p].sm_id = MinOf(ids),
                                      ![p].sm_state = db[MinOf(ids)].state]
           ELSE /\ pc' = [pc EXCEPT ![p] = "goc_create"]
                /\ loc' = loc
    /\ UNCHANGED <<db, hist, now, ncalls, call, ret, pre>>

\* The row get_or_create inserts: the defaults of set_many.
CreatedRow(username, usage_key, state, t) ==
    [student |-> username, course_id |-> context_key(usage_key),
     module_state_key |-> usage_key, module_type |-> key_block_type(usage_key),
     state |-> Some(dumps(state)), modified |-> t]

\* A bug: the table has no uniqueness constraint.
UniqueViolation_never(rows, username, usage_key) == FALSE

\* The uniqueness constraint of the table: an INSERT of a second row of a
\* user and a usage key is rejected.
UniqueViolation(rows, username, usage_key) ==
    RowIds(rows, username, usage_key) # {}

\* get_or_create, its INSERT. When another creator has inserted the row since
\* the SELECT, the uniqueness constraint rejects the INSERT: either the row
\* is still invisible to this transaction and IntegrityError reaches
\* set_many, or the row is visible and get_or_create hands it over (created
\* is False).
GetOrCreateCreate(p) ==
    /\ pc[p] = "goc_create"
    /\ LET key == call[p].items[loc[p].idx][1]
           state == call[p].items[loc[p].idx][2]
           ids == RowIds(db, call[p].username, key)
       IN  IF ~UniqueViolation(db, call[p].username, key)
           THEN /\ db' = Append(db, CreatedRow(call[p].username, key, state, now + 1))
                /\ hist' = Append(hist,
                                  <<HistoryEntry(Some(dumps(state)), now + 1)>>)
                /\ now' = now + 1
                /\ NextPair(p, loc[p].warnings)
           ELSE /\ \/ OnCreateIntegrityError(p, key)
                   \/ /\ pc' = [pc EXCEPT ![p] = "save"]
                      /\ loc' = [loc EXCEPT ![p].sm_id = MinOf(ids),
                                            ![p].sm_state = db[MinOf(ids)].state]
                      /\ ret' = ret
                /\ UNCHANGED <<db, hist, now>>
    /\ UNCHANGED <<ncalls, call, pre>>

\* A bug: the stored fields are not read, the merge starts from no field.
MergedState_ignoring_stored(sm_state, state) == Some(dumps(state))

\* The state set_many writes to a row it found: the stored fields (none when
\* the state is None) overlaid by the pair's fields.
MergedState(sm_state, state) ==
    LET current_state == IF sm_state = None THEN EmptyDict
                         ELSE loads(sm_state.val)
    IN  Some(dumps(update(current_state, state)))

\* A bug: the merge starts from the state the row has at the UPDATE.
MergeBase_current(p) == db[loc[p].sm_id].state

\* The state the merge starts from: the one get_or_create has read.
MergeBase(p) == loc[p].sm_state

\* A bug: a rejected UPDATE is logged and the call returns.
OnSaveIntegrityError_returns(p, usage_key) ==
    EndLogged(p, "ok", <<>>, Append(loc[p].warnings, <<"save", usage_key>>))

\* What set_many does when the UPDATE raises IntegrityError: it logs
\* warnings, and goes on.
OnSaveIntegrityError(p, usage_key) ==
    NextPair(p, Append(loc[p].warnings, <<"save", usage_key>>))

\* The branch `if not created`: the merge and save(force_update=True), an
\* UPDATE of the row; an IntegrityError of the UPDATE is logged and ignored.
SaveMerged(p) ==
    /\ pc[p] = "save"
    /\ LET key == call[p].items[loc[p].idx][1]
           state == call[p].items[loc[p].idx][2]
           id == loc[p].sm_id
           new == MergedState(MergeBase(p), state)
       IN  \E rejected \in IF UpdateMayBeRejected(p) THEN BOOLEAN ELSE {FALSE} :
              IF rejected
              THEN /\ UNCHANGED <<db, hist, now>>
                   /\ OnSaveIntegrityError(p, key)
              ELSE /\ db' = [db EXCEPT ![id].state = new,
                                       ![id].modified = now + 1]
                   /\ hist' = [hist EXCEPT ![id] =
                                  Append(@, HistoryEntry(new, now + 1))]
                   /\ now' = now + 1
                   /\ NextPair(p, loc[p].warnings)
    /\ UNCHANGED <<ncalls, call, pre>>

(* ----------------------------- delete_many ---------------------------- *)

\* delete_many up to its loop: the scope check; the queries are made as the
\* loop reaches their groups.
DeleteManyCall(p, limit, username, block_keys, fields, scope) ==
    /\ Begin(p, limit,
             [NoCall EXCEPT !.op = "delete_many", !.username = username,
                            !.keys = block_keys, !.fields = fields,
                            !.scope = scope])
    /\ IF UnsupportedScope(scope)
       THEN End(p, "ValueError", <<>>)
       ELSE IF by_context(block_keys) = <<>>
       THEN End(p, "ok", <<>>)
       ELSE /\ pc' = [pc EXCEPT ![p] = "del_read"]
            /\ loc' = [loc EXCEPT ![p] =
                          [NoLoc EXCEPT !.groups = by_context(block_keys)]]
            /\ ret' = ret
    /\ UNCHANGED <<db, hist, now>>

\* The query of the next group: its rows are read as they are now.
DeleteRead(p) ==
    /\ pc[p] = "del_read"
    /\ LET ids == GroupQuery(db, call[p].username, call[p].keys,
                             Head(loc[p].groups))
           rows == [i \in 1..Len(ids) |-> [id |-> ids[i], state |-> db[ids[i]].state]]
           groups == Tail(loc[p].groups)
       IN  IF rows = <<>> /\ groups = <<>>
           THEN End(p, "ok", <<>>)
           ELSE /\ pc' = [pc EXCEPT ![p] = IF rows = <<>> THEN "del_read"
                                           ELSE "del_save"]
                /\ loc' = [loc EXCEPT ![p].groups = groups, ![p].rows = rows]
                /\ ret' = ret
    /\ UNCHANGED <<db, hist, now, ncalls, call, pre>>

\* A bug: with no fields named, the state is set to None.
DeletedState_to_none(sm_state, fields) ==
    IF fields = None
    THEN None
    ELSE LET current_state == loads(sm_state.val)
         IN  Some(dumps([n \in DOMAIN current_state \ fields.val |->
                            current_state[n]]))

\* A bug: with fields named, every field is deleted.
DeletedState_every_field(sm_state, fields) == Some(EmptyObjectText)

\* The state delete_many gives a row it read: "{}" when no fields are named,
\* else the stored fields without the named ones.
DeletedState(sm_state, fields) ==
    IF fields = None
    THEN Some(EmptyObjectText)
    ELSE LET current_state == loads(sm_state.val)
         IN  Some(dumps([n \in DOMAIN current_state \ fields.val |->
                            current_state[n]]))

\* One turn of the loop: the new state and save(force_update=True).
\* json.loads of a None state raises TypeError.
DeleteSave(p) ==
    /\ pc[p] = "del_save"
    /\ LET row == Head(loc[p].rows)
           rows == Tail(loc[p].rows)
       IN  IF call[p].fields # None /\ row.state = None
           THEN /\ End(p, "TypeError", <<>>)
                /\ UNCHANGED <<db, hist, now>>
           ELSE LET new == DeletedState(row.state, call[p].fields)
                IN  /\ db' = [db EXCEPT ![row.id].state = new,
                                        ![row.id].modified = now + 1]
                    /\ hist' = [hist EXCEPT ![row.id] =
                                   Append(@, HistoryEntry(new, now + 1))]
                    /\ now' = now + 1
                    /\ IF rows = <<>> /\ loc[p].groups = <<>>
                       THEN End(p, "ok", <<>>)
                       ELSE /\ pc' = [pc EXCEPT ![p] =
                                         IF rows = <<>> THEN "del_read"
                                         ELSE "del_save"]
                            /\ loc' = [loc EXCEPT ![p].rows = rows]
                            /\ ret' = ret
    /\ UNCHANGED <<ncalls, call, pre>>

(* ------------------------------ get_many ------------------------------ *)

\* A bug: the empty dict is not skipped.
HasState_not_none(row) == row.state # None

\* Whether get_many yields a row: its state is neither None nor the empty
\* dict.
HasState(row) == row.state # None /\ loads(row.state.val) # EmptyDict

\* A bug: a field that is not stored fails the call's filter, and nothing of
\* the state is kept.
FilterFields_all_or_nothing(state, fields) ==
    IF fields = None \/ fields.val \subseteq DOMAIN state THEN state
    ELSE EmptyDict

\* The state get_many yields for a row: all the stored fields, or those of
\* `fields` that are stored.
FilterFields(state, fields) ==
    IF fields = None THEN state
    ELSE [field \in {f \in fields.val : f \in DOMAIN state} |-> state[field]]

\* get_many read to its end on one table.
get_many(rows, username, block_keys, scope, fields) ==
    LET modules == _get_student_modules(rows, username, block_keys)
        yielded == SelectSeq(modules, LAMBDA i : HasState(rows[i]))
    IN  [j \in 1..Len(yielded) |->
            XBlockUserState(username, rows[yielded[j]].module_state_key,
                FilterFields(loads(rows[yielded[j]].state.val), fields),
                rows[yielded[j]].modified, scope)]

GetManyCall(p, username, block_keys, fields, scope) ==
    /\ Begin(p, 0, [NoCall EXCEPT !.op = "get_many", !.username = username,
                                  !.keys = block_keys, !.fields = fields,
                                  !.scope = scope])
    /\ IF UnsupportedScope(scope)
       THEN End(p, "ValueError", <<>>)
       ELSE End(p, "ok", get_many(db, username, block_keys, scope, fields))
    /\ UNCHANGED <<db, hist, now>>

\* get: the first state get_many yields, or DoesNotExist when it yields none.
GetCall(p, username, block_key, fields, scope) ==
    /\ Begin(p, 0, [NoCall EXCEPT !.op = "get", !.username = username,
                                  !.keys = <<block_key>>, !.fields = fields,
                                  !.scope = scope])
    /\ IF UnsupportedScope(scope)
       THEN End(p, "ValueError", <<>>)
       ELSE LET states == get_many(db, username, <<block_key>>, scope, fields)
            IN  IF states = <<>>
                THEN End(p, "DoesNotExist", <<>>)
                ELSE End(p, "ok", <<Head(states)>>)
    /\ UNCHANGED <<db, hist, now>>

(* ----------------------------- get_history ---------------------------- *)

\* A bug: the empty dict is listed as it is.
HistoryState_keeps_empty(entry_state) ==
    IF entry_state = None THEN None ELSE Some(loads(entry_state.val))

\* The state get_history lists for an entry: None for a None state and for
\* the empty dict.
HistoryState(entry_state) ==
    IF entry_state = None THEN None
    ELSE IF loads(entry_state.val) = EmptyDict THEN None
    ELSE Some(loads(entry_state.val))

\* A bug: the entries are yielded from the earliest to the latest.
YieldHistory_earliest_first(rows, username, history_entries, scope) ==
    [i \in 1..Len(history_entries) |->
        LET entry == history_entries[Len(history_entries) + 1 - i]
        IN  XBlockUserState(username, rows[entry.csm].module_state_key,
                IF entry.state = None THEN None
                ELSE IF loads(entry.state.val) = EmptyDict THEN None
                ELSE Some(loads(entry.state.val)),
                entry.created, scope)]

\* What get_history yields for the entries, in their order.
YieldHistory(rows, username, history_entries, scope) ==
    [i \in 1..Len(history_entries) |->
        XBlockUserState(username,
            rows[history_entries[i].csm].module_state_key,
            HistoryState(history_entries[i].state),
            history_entries[i].created, scope)]

\* A bug: a row without history entries is not an error.
get_history_unchecked_entries(rows, log, username, block_key, scope) ==
    LET student_modules == _get_student_modules(rows, username, <<block_key>>)
        history_entries ==
            BaseStudentModuleHistory_get_history(log, student_modules)
    IN  IF scope # Scope_user_state
        THEN [status |-> "ValueError", out |-> <<>>]
        ELSE IF Len(student_modules) = 0
        THEN [status |-> "DoesNotExist", out |-> <<>>]
        ELSE [status |-> "ok",
              out |-> [i \in 1..Len(history_entries) |->
                  XBlockUserState(username,
                      rows[history_entries[i].csm].module_state_key,
                      IF history_entries[i].state = None THEN None
                      ELSE IF loads(history_entries[i].state.val) = EmptyDict
                      THEN None
                      ELSE Some(loads(history_entries[i].state.val)),
                      history_entries[i].created, scope)]]

\* get_history read to its end on one table and log: how it ends and what
\* it yields.
get_history(rows, log, username, block_key, scope) ==
    LET student_modules == _get_student_modules(rows, username, <<block_key>>)
        history_entries ==
            BaseStudentModuleHistory_get_history(log, student_modules)
    IN  IF UnsupportedScope(scope)
        THEN [status |-> "ValueError", out |-> <<>>]
        ELSE IF Len(student_modules) = 0
        THEN [status |-> "DoesNotExist", out |-> <<>>]
        ELSE IF history_entries = <<>>
        THEN [status |-> "DoesNotExist", out |-> <<>>]
        ELSE [status |-> "ok",
              out |-> YieldHistory(rows, username, history_entries, scope)]

GetHistoryCall(p, username, block_key, scope) ==
    /\ Begin(p, 0, [NoCall EXCEPT !.op = "get_history", !.username = username,
                                  !.keys = <<block_key>>, !.scope = scope])
    /\ LET r == get_history(db, hist, username, block_key, scope)
       IN  End(p, r.status, r.out)
    /\ UNCHANGED <<db, hist, now>>

(* ------------------------------ the scans ----------------------------- *)

\* The rows of iter_all_for_block's queryset.
BlockResults(rows, block_key) ==
    SortedIds({i \in DOMAIN rows : rows[i].module_state_key = block_key})

\* The rows of iter_all_for_course's queryset.
CourseResults(rows, course_key, block_type) ==
    SortedIds({i \in DOMAIN rows :
        /\ rows[i].course_id = course_key
        /\ block_type # None => rows[i].module_type = block_type.val})

\* The queryset of the scan process p is in, on a table.
ScanResults(p, rows) ==
    IF call[p].op = "iter_all_for_block"
    THEN BlockResults(rows, call[p].keys[1])
    ELSE CourseResults(rows, call[p].course_key, call[p].block_type)

\* A bug: the last page is forgotten when it is not full.
NumPages_rounded_down(count, per_page) ==
    IF count \div per_page > 1 THEN count \div per_page ELSE 1

\* Paginator.num_pages: one page for no row.
NumPages(count, per_page) ==
    LET hits == IF count > 1 THEN count ELSE 1
    IN  (hits + per_page - 1) \div per_page

\* Paginator.page(number).object_list: the slice [bottom:top] of the queryset.
PageSlice(results, number, per_page, count) ==
    LET bottom == (number - 1) * per_page
        top == IF bottom + per_page >= count THEN count ELSE bottom + per_page
    IN  SubSeq(results, bottom + 1, IF top < Len(results) THEN top ELSE Len(results))

\* A scan up to its loop: the scope check and the paginator, whose count is
\* taken once.
ScanCall(p, c) ==
    /\ Begin(p, 0, c)
    /\ IF UnsupportedScope(c.scope)
       THEN End(p, "ValueError", <<>>)
       ELSE /\ pc' = [pc EXCEPT ![p] = "scan_page"]
            /\ loc' = [loc EXCEPT ![p] =
                  [NoLoc EXCEPT !.page = 1,
                     !.count = IF c.op = "iter_all_for_block"
                               THEN Len(BlockResults(db, c.keys[1]))
                               ELSE Len(CourseResults(db, c.course_key,
                                                      c.block_type))]]
            /\ ret' = ret
    /\ UNCHANGED <<db, hist, now>>

iter_all_for_block(p, block_key, scope, per_page) ==
    ScanCall(p, [NoCall EXCEPT !.op = "iter_all_for_block",
                               !.keys = <<block_key>>, !.scope = scope,
                               !.per_page = per_page])

iter_all_for_course(p, course_key, block_type, scope, per_page) ==
    ScanCall(p, [NoCall EXCEPT !.op = "iter_all_for_course",
                               !.course_key = course_key,
                               !.block_type = block_type, !.scope = scope,
                               !.per_page = per_page])

\* What the loop over a page yields: the states of its rows that are not the
\* empty dict.
PageStates(rows, object_list, scope) ==
    LET yielded == SelectSeq(object_list,
                       LAMBDA i : loads(rows[i].state.val) # EmptyDict)
    IN  [j \in 1..Len(yielded) |->
            XBlockUserState(rows[yielded[j]].student,
                rows[yielded[j]].module_state_key,
                loads(rows[yielded[j]].state.val),
                rows[yielded[j]].modified, scope)]

\* The rows of a page before its first row whose state is None.
RECURSIVE BeforeNone(_, _)
BeforeNone(rows, object_list) ==
    IF object_list = <<>> \/ rows[Head(object_list)].state = None
    THEN <<>>
    ELSE <<Head(object_list)>> \o BeforeNone(rows, Tail(object_list))

\* One page: its rows are fetched as they are now and gone through;
\* json.loads of a None state raises TypeError.
ScanPage(p) ==
    /\ pc[p] = "scan_page"
    /\ LET object_list == PageSlice(ScanResults(p, db), loc[p].page,
                                    call[p].per_page, loc[p].count)
           readable == BeforeNone(db, object_list)
           out == loc[p].out \o PageStates(db, readable, call[p].scope)
       IN  IF readable # object_list
           THEN End(p, "TypeError", out)
           ELSE IF loc[p].page >= NumPages(loc[p].count, call[p].per_page)
           THEN End(p, "ok", out)
           ELSE /\ pc' = pc
                /\ loc' = [loc EXCEPT ![p].page = @ + 1, ![p].out = out]
                /\ ret' = ret
    /\ UNCHANGED <<db, hist, now, ncalls, call, pre>>

(* ------------------------- the specifications ------------------------- *)

\* The steps inside a writing call.
WriteStep(p) ==
    \/ GetOrCreateGet(p)
    \/ GetOrCreateCreate(p)
    \/ SaveMerged(p)
    \/ DeleteRead(p)
    \/ DeleteSave(p)

\* Sequences of at most n elements of S, no element twice.
ListsOf(S, n) ==
    {l \in UNION {[1..m -> S] : m \in 0..n} :
        \A i, j \in DOMAIN l : l[i] = l[j] => i = j}

\* The fields of the batches of several pairs.
BatchDicts == {[a |-> 1], [b |-> 2]}

\* set_many's batches (block_keys_to_state.items(), keys distinct): no pair,
\* one pair of any fields, several pairs.
Batches ==
    {<<>>} \cup {<<kd>> : kd \in UsageKeys \X Dicts}
        \cup {items \in UNION {[1..m -> UsageKeys \X BatchDicts] : m \in 2..MaxBatch} :
                 \A i, j \in DOMAIN items : items[i][1] = items[j][1] => i = j}

\* The calls with a scope that is not Scope.user_state.
OtherScopes == Scopes \ {Scope_user_state}

\* The calls of the single caller: <<self.user, username, items, scope>>.
SeqSetManyArgs ==
    {<<"None", "alice", items, Scope_user_state>> : items \in Batches}
        \cup {<<"None", "bob", <<<<"k1", d>>>>, Scope_user_state>> : d \in BatchDicts}
        \cup {<<"AnonymousUser", AnonUsername, items, Scope_user_state>> :
                 items \in Batches}
        \cup {<<"None", AnonUsername, <<<<"k1", [a |-> 1]>>>>, Scope_user_state>>}
        \cup {<<"None", "alice", <<<<"k1", [a |-> 1]>>>>, scope>> :
                 scope \in OtherScopes}

\* <<username, block_keys, fields, scope>>
SeqDeleteManyArgs ==
    {<<"alice", <<k>>, f, Scope_user_state>> : k \in UsageKeys, f \in FieldsArgs}
        \cup {<<"alice", ks, None, Scope_user_state>> : ks \in ListsOf(UsageKeys, MaxBatch)}
        \cup {<<"bob", <<"k1">>, None, Scope_user_state>>}
        \cup {<<"alice", <<"k1">>, None, scope>> : scope \in OtherScopes}

SeqGetManyArgs ==
    {<<u, ks, f, Scope_user_state>> :
        u \in Usernames, ks \in ListsOf(UsageKeys, MaxBatch),
        f \in {None, Some({"a"})}}
        \cup {<<"alice", <<"k1">>, None, scope>> : scope \in OtherScopes}

SeqGetArgs ==
    {<<u, k, f, Scope_user_state>> :
        u \in Usernames, k \in UsageKeys, f \in FieldsArgs}
        \cup {<<u, "k1", None, scope>> : u \in Usernames, scope \in OtherScopes}

SeqGetHistoryArgs ==
    {<<u, k, Scope_user_state>> : u \in Usernames, k \in UsageKeys}
        \cup {<<"alice", "k1", scope>> : scope \in OtherScopes}

\* <<block_key, scope, per_page>>
SeqBlockScanArgs ==
    {<<k, Scope_user_state, n>> : k \in UsageKeys, n \in 1..MaxPageSize}
        \cup {<<"k1", scope, 1>> : scope \in OtherScopes}

\* <<course_key, block_type, scope, per_page>>
SeqCourseScanArgs ==
    {<<c, t, Scope_user_state, n>> :
        c \in {"c1", "c2"}, t \in {None, Some("problem")}, n \in 1..MaxPageSize}
        \cup {<<"c1", None, scope, 1>> : scope \in OtherScopes}

\* A single caller: every call is made after the one before has returned.
NextSeq ==
    \/ \E a \in SeqSetManyArgs :
           SetManyCall("p1", MaxSeqCalls, a[1], a[2], a[3], a[4])
    \/ \E a \in SeqDeleteManyArgs :
           DeleteManyCall("p1", MaxSeqCalls, a[1], a[2], a[3], a[4])
    \/ \E a \in SeqGetManyArgs : GetManyCall("p1", a[1], a[2], a[3], a[4])
    \/ \E a \in SeqGetArgs : GetCall("p1", a[1], a[2], a[3], a[4])
    \/ \E a \in SeqGetHistoryArgs : GetHistoryCall("p1", a[1], a[2], a[3])
    \/ \E a \in SeqBlockScanArgs : iter_all_for_block("p1", a[1], a[2], a[3])
    \/ \E a \in SeqCourseScanArgs :
           iter_all_for_course("p1", a[1], a[2], a[3], a[4])
    \/ WriteStep("p1")
    \/ ScanPage("p1")
    \/ Return("p1")

SpecSeq == Init /\ [][NextSeq]_vars

\* The calls of the concurrent callers: fewer arguments, every interleaving.
SmallBatches ==
    {items \in UNION {[1..m -> UsageKeys \X BatchDicts] : m \in 1..MaxBatch} :
        \A i, j \in DOMAIN items : items[i][1] = items[j][1] => i = j}

SetManyArgs ==
    {<<"None", "alice", items, Scope_user_state>> : items \in SmallBatches}

DeleteManyArgs ==
    {<<"alice", <<"k1">>, f, Scope_user_state>> : f \in {None, Some({"a"})}}

GetArgs == {<<"alice", k, None, Scope_user_state>> : k \in UsageKeys}

\* Concurrent callers: the steps of their calls interleave.
Next ==
    \E p \in Procs :
        \/ \E a \in SetManyArgs :
               SetManyCall(p, MaxCalls, a[1], a[2], a[3], a[4])
        \/ \E a \in DeleteManyArgs :
               DeleteManyCall(p, MaxCalls, a[1], a[2], a[3], a[4])
        \/ \E a \in GetArgs : GetCall(p, a[1], a[2], a[3], a[4])
        \/ WriteStep(p)
        \/ Return(p)

Spec == Init /\ [][Next]_vars

\* The reads, on tables of rows in every condition: p1 reads while p2 may
\* write. carol is a learner whose rows only the scans read.
ScanPairs ==
    << <<"alice", "k1">>, <<"bob", "k1">>, <<"carol", "k1">>, <<"alice", "k2">> >>

\* The states of the rows: untouched, emptied by delete_many, populated.
ScanStates == {None, Some(EmptyObjectText), Some(dumps([a |-> 1]))}

\* The table that holds the rows of the pairs of DOMAIN f, row i in state f[i].
ScanTable(f) ==
    LET present == SelectSeq(<<1, 2, 3, 4>>, LAMBDA i : i \in DOMAIN f)
    IN  [j \in 1..Len(present) |->
            [UntouchedRow(ScanPairs[present[j]]) EXCEPT !.state = f[present[j]]]]

ScanTables ==
    {ScanTable(f) : f \in UNION {[D -> ScanStates] : D \in SUBSET (1..4)}}

\* The entries the writes that made a row's state have left in its history.
ScanHistory(state) ==
    IF state = None THEN <<>>
    ELSE IF state = Some(EmptyObjectText)
    THEN <<HistoryEntry(Some(dumps([a |-> 1])), 0), HistoryEntry(state, 0)>>
    ELSE <<HistoryEntry(state, 0)>>

InitScan ==
    /\ db \in ScanTables
    /\ hist = [i \in 1..Len(db) |-> ScanHistory(db[i].state)]
    /\ now = 0
    /\ ncalls = 0
    /\ pc = [p \in Procs |-> "idle"]
    /\ call = [p \in Procs |-> NoCall]
    /\ loc = [p \in Procs |-> NoLoc]
    /\ ret = [p \in Procs |-> NoRet]
    /\ pre = [p \in Procs |-> <<>>]

\* <<block_key, scope, per_page>>
BlockScanArgs ==
    {<<k, Scope_user_state, n>> : k \in UsageKeys, n \in 1..MaxPageSize}

\* <<course_key, block_type, scope, per_page>>
CourseScanArgs ==
    {<<c, t, Scope_user_state, n>> :
        c \in {"c1", "c2"}, t \in {None, Some("problem"), Some("html")},
        n \in 1..MaxPageSize}

\* <<username, block_keys, fields, scope>>
ScanGetManyArgs ==
    {<<u, ks, f, Scope_user_state>> :
        u \in Usernames, ks \in ListsOf(UsageKeys, MaxBatch),
        f \in {None, Some({"a"})}}

ScanSetManyArgs ==
    {<<"None", u, <<<<"k1", [b |-> 2]>>>>, Scope_user_state>> : u \in Usernames}

ScanDeleteManyArgs == {<<"bob", <<"k1">>, None, Scope_user_state>>}

NextScan ==
    \/ \E a \in BlockScanArgs : iter_all_for_block("p1", a[1], a[2], a[3])
    \/ \E a \in CourseScanArgs :
           iter_all_for_course("p1", a[1], a[2], a[3], a[4])
    \/ \E a \in ScanGetManyArgs : GetManyCall("p1", a[1], a[2], a[3], a[4])
    \/ ScanPage("p1")
    \/ Return("p1")
    \/ \E a \in ScanSetManyArgs :
           SetManyCall("p2", MaxScanWrites, a[1], a[2], a[3], a[4])
    \/ \E a \in ScanDeleteManyArgs :
           DeleteManyCall("p2", MaxScanWrites, a[1], a[2], a[3], a[4])
    \/ WriteStep("p2")
    \/ Return("p2")

SpecScan == InitScan /\ [][NextScan]_vars

\* A single caller on tables of rows in every condition.
\* <<self.user, username, items, scope>>
StoredSetManyArgs ==
    {<<"None", "alice", <<<<k, d>>>>, Scope_user_state>> :
        k \in UsageKeys, d \in Dicts}

\* <<username, block_keys, fields, scope>>
StoredDeleteManyArgs ==
    {<<"alice", <<"k1">>, f, Scope_user_state>> : f \in {None, Some({"a"})}}

NextStored ==
    \/ \E a \in StoredSetManyArgs :
           SetManyCall("p1", MaxStoredCalls, a[1], a[2], a[3], a[4])
    \/ \E a \in StoredDeleteManyArgs :
           DeleteManyCall("p1", MaxStoredCalls, a[1], a[2], a[3], a[4])
    \/ WriteStep("p1")
    \/ Return("p1")

SpecStored == InitScan /\ [][NextStored]_vars

\* Two callers writing one key of alice, on tables of rows in every
\* condition. <<self.user, username, items, scope>>
RaceSetManyArgs ==
    {<<"None", "alice", <<<<"k1", d>>>>, Scope_user_state>> : d \in BatchDicts}

\* <<username, block_keys, fields, scope>>
RaceDeleteManyArgs == {<<"alice", <<"k1">>, None, Scope_user_state>>}

RaceGetArgs == {<<"alice", "k1", None, Scope_user_state>>}

NextRace ==
    \E p \in Procs :
        \/ \E a \in RaceSetManyArgs :
               SetManyCall(p, MaxRaceCalls, a[1], a[2], a[3], a[4])
        \/ \E a \in RaceDeleteManyArgs :
               DeleteManyCall(p, MaxRaceCalls, a[1], a[2], a[3], a[4])
        \/ \E a \in RaceGetArgs : GetCall(p, a[1], a[2], a[3], a[4])
        \/ WriteStep(p)
        \/ Return(p)

SpecRace == InitScan /\ [][NextRace]_vars

(* ------------------------------ the claims ---------------------------- *)

\* The row ids of a user and a key, whatever the course.
RecordsOf(rows, username, key) ==
    {i \in DOMAIN rows :
        rows[i].student = username /\ rows[i].module_state_key = key}

\* The stored <<name, value>> members of a user's key: none for no row, a
\* None state or "{}".
StoredMembers(rows, username, key) ==
    UNION {{rows[i].state.val[j] : j \in DOMAIN rows[i].state.val} :
              i \in {r \in RecordsOf(rows, username, key) : rows[r].state # None}}

Populated(rows, username, key) == StoredMembers(rows, username, key) # {}

\* The <<name, value>> members of a dict.
Members(d) == {<<n, d[n]>> : n \in DOMAIN d}

\* A call of process p has ended.
Ended(p, op) ==
    pc[p] = "ret" /\ call[p].op = op /\ call[p].scope = Scope_user_state

\* C1: get(K) fails with DoesNotExist exactly when the user has no row of K
\* with a non-empty state (no row, a None state, or "{}"); in every other
\* case it returns one read-model, of that user and key.
C1_GetNotFoundIffEmpty ==
    \A p \in Procs :
        Ended(p, "get") =>
            LET u == call[p].username
                k == call[p].keys[1]
            IN  /\ ret[p].status = "DoesNotExist" <=> ~Populated(pre[p], u, k)
                /\ ret[p].status # "DoesNotExist" =>
                      /\ ret[p].status = "ok"
                      /\ Len(ret[p].out) = 1
                      /\ ret[p].out[1].username = u
                      /\ ret[p].out[1].block_key = k

\* A get of a tombstone ("{}") has failed with DoesNotExist.
C1_Witness ==
    \E p \in Procs :
        /\ Ended(p, "get")
        /\ ret[p].status = "DoesNotExist"
        /\ \E i \in RecordsOf(pre[p], call[p].username, call[p].keys[1]) :
               pre[p][i].state = Some(EmptyObjectText)

\* C2: with a single caller, after set_many the stored fields of every key
\* of the batch are the fields stored before overlaid by the pair's fields:
\* the pair's fields have the pair's values and every other stored field
\* keeps its value.
C2_SetMerges ==
    \A p \in Procs :
        (Ended(p, "set_many") /\ ret[p].status = "ok"
            /\ call[p].username \in Usernames) =>
            \A i \in DOMAIN call[p].items :
                LET u == call[p].username
                    k == call[p].items[i][1]
                    S == call[p].items[i][2]
                IN  /\ Cardinality(RecordsOf(db, u, k)) = 1
                    /\ StoredMembers(db, u, k) =
                          {m \in StoredMembers(pre[p], u, k) : m[1] \notin DOMAIN S}
                              \cup Members(S)

\* set(K, {b: 2}) has returned on a key that held {a: 1}: it holds both.
C2_Witness ==
    \E p \in Procs :
        /\ Ended(p, "set_many") /\ ret[p].status = "ok"
        /\ call[p].items = << <<"k1", [b |-> 2]>> >>
        /\ StoredMembers(pre[p], call[p].username, "k1") = {<<"a", 1>>}
        /\ StoredMembers(db, call[p].username, "k1") = {<<"a", 1>>, <<"b", 2>>}

\* get(K) would fail on the table.
GetFails(rows, username, key) ==
    get_many(rows, username, <<key>>, Scope_user_state, None) = <<>>

\* C3: after delete(K) with no fields on a key that held fields (a set with
\* non-empty S came before), the row still exists, its state is "{}", and
\* get(K) fails with DoesNotExist.
C3_DeleteAllLooksAbsent ==
    \A p \in Procs :
        /\ (Ended(p, "delete_many") /\ ret[p].status = "ok"
               /\ call[p].fields = None) =>
              \A j \in DOMAIN call[p].keys :
                  LET u == call[p].username
                      k == call[p].keys[j]
                  IN  Populated(pre[p], u, k) =>
                         /\ RecordsOf(db, u, k) # {}
                         /\ \A i \in RecordsOf(db, u, k) :
                                db[i].state = Some(EmptyObjectText)
                         /\ GetFails(db, u, k)
        /\ Ended(p, "get") =>
              \A i \in RecordsOf(pre[p], call[p].username, call[p].keys[1]) :
                  pre[p][i].state = Some(EmptyObjectText) =>
                      ret[p].status = "DoesNotExist"

\* set(K, S), delete(K), get(K): the get has failed, and the row of K is
\* there with the state "{}" written after a state with fields.
C3_Witness ==
    \E p \in Procs :
        /\ Ended(p, "get") /\ ret[p].status = "DoesNotExist"
        /\ \E i \in RecordsOf(db, call[p].username, call[p].keys[1]) :
              /\ db[i].state = Some(EmptyObjectText)
              /\ Len(hist[i]) = 2
              /\ hist[i][1].state \notin {None, Some(EmptyObjectText)}
              /\ hist[i][2].state = Some(EmptyObjectText)

\* C4: delete(K, fields=D) on a key that holds fields leaves exactly the
\* stored fields that D does not name, with their values; when none is left
\* the state is "{}" and get(K) fails.
C4_DeleteFields ==
    \A p \in Procs :
        (Ended(p, "delete_many") /\ ret[p].status = "ok"
            /\ call[p].fields # None) =>
            \A j \in DOMAIN call[p].keys :
                LET u == call[p].username
                    k == call[p].keys[j]
                    D == call[p].fields.val
                IN  Populated(pre[p], u, k) =>
                       /\ StoredMembers(db, u, k) =
                             {m \in StoredMembers(pre[p], u, k) : m[1] \notin D}
                       /\ ~Populated(db, u, k) =>
                             /\ \A i \in RecordsOf(db, u, k) :
                                    db[i].state = Some(EmptyObjectText)
                             /\ GetFails(db, u, k)

\* delete(K, fields=[a]) has returned on a key that held {a: 1, b: 2}.
C4_Witness ==
    \E p \in Procs :
        /\ Ended(p, "delete_many") /\ ret[p].status = "ok"
        /\ call[p].fields = Some({"a"})
        /\ StoredMembers(pre[p], call[p].username, "k1") = {<<"a", 1>>, <<"b", 2>>}
        /\ StoredMembers(db, call[p].username, "k1") = {<<"b", 2>>}

\* C5: get(K, fields=F) on a key that holds fields succeeds and returns
\* exactly the stored fields that F names, with their values: an empty
\* mapping when F names none of them.
C5_GetFields ==
    \A p \in Procs :
        (Ended(p, "get") /\ call[p].fields # None
            /\ Populated(pre[p], call[p].username, call[p].keys[1])) =>
            /\ ret[p].status = "ok"
            /\ Len(ret[p].out) = 1
            /\ Members(ret[p].out[1].state) =
                  {m \in StoredMembers(pre[p], call[p].username, call[p].keys[1]) :
                      m[1] \in call[p].fields.val}

\* get(K, fields=[b]) has succeeded with no field on a key that holds {a: 1}.
C5_Witness ==
    \E p \in Procs :
        /\ Ended(p, "get") /\ ret[p].status = "ok"
        /\ call[p].fields = Some({"b"})
        /\ StoredMembers(pre[p], call[p].username, call[p].keys[1]) = {<<"a", 1>>}
        /\ ret[p].out[1].state = EmptyDict

\* C6: when the creation of K1's row in set_many over [K1, K2] is rejected
\* by the uniqueness constraint (IntegrityError is logged), the call still
\* persists K2's fields.
C6_SecondPairPersisted ==
    \A p \in Procs :
        (Ended(p, "set_many") /\ ret[p].status = "ok"
            /\ Len(call[p].items) = 2
            /\ ret[p].warnings = << <<"get_or_create", call[p].items[1][1]>> >>) =>
            Members(call[p].items[2][2]) \subseteq
                StoredMembers(db, call[p].username, call[p].items[2][1])

\* C7: a call with a scope other than Scope.user_state fails with
\* ValueError, whatever the operation, and the table is as the call found it.
C7_UnsupportedScope ==
    \A p \in Procs :
        (pc[p] = "ret" /\ call[p].scope # Scope_user_state) =>
            /\ ret[p].status = "ValueError"
            /\ ret[p].out = <<>>
            /\ db = pre[p]

\* A scan of a course with rows has failed with ValueError.
C7_Witness ==
    \E p \in Procs :
        /\ pc[p] = "ret" /\ call[p].scope # Scope_user_state
        /\ call[p].op = "iter_all_for_course"
        /\ ret[p].status = "ValueError"
        /\ \E i \in DOMAIN db : db[i].course_id = call[p].course_key

\* C8: get_history yields the entries of the row from the most recent to
\* the earliest: no entry was created before the one yielded after it, and
\* the first one is the state the row has now.
C8_HistoryLatestFirst ==
    \A p \in Procs :
        (Ended(p, "get_history") /\ ret[p].status = "ok") =>
            LET out == ret[p].out
                u == call[p].username
                k == call[p].keys[1]
            IN  /\ \A j \in 1..(Len(out) - 1) : out[j].updated >= out[j + 1].updated
                /\ Len(out) >= 1
                /\ IF Populated(db, u, k)
                   THEN /\ out[1].state # None
                        /\ Members(out[1].state.val) = StoredMembers(db, u, k)
                   ELSE out[1].state = None

\* set(K, {a: 1}), set(K, {a: 2}), get_history(K): a = 2 comes before a = 1.
C8_Witness ==
    \E p \in Procs :
        /\ Ended(p, "get_history") /\ ret[p].status = "ok"
        /\ Len(ret[p].out) = 2
        /\ ret[p].out[1].state = Some([a |-> 2])
        /\ ret[p].out[2].state = Some([a |-> 1])

\* The history entries of a user's key.
EntriesOf(rows, log, username, key) ==
    UNION {{<<i, j>> : j \in DOMAIN log[i]} : i \in RecordsOf(rows, username, key)}

\* C9: get_history fails with DoesNotExist when the key has no row and when
\* its row has no history entry; it never ends well having yielded nothing.
C9_HistoryNotFound ==
    \A p \in Procs :
        Ended(p, "get_history") =>
            LET u == call[p].username
                k == call[p].keys[1]
            IN  /\ RecordsOf(db, u, k) = {} => ret[p].status = "DoesNotExist"
                /\ EntriesOf(db, hist, u, k) = {} => ret[p].status = "DoesNotExist"
                /\ ret[p].status \in {"ok", "DoesNotExist"}
                /\ ret[p].status = "ok" => ret[p].out # <<>>

\* get_history has failed on a row that exists and has no history entry.
C9_Witness ==
    \E p \in Procs :
        /\ Ended(p, "get_history") /\ ret[p].status = "DoesNotExist"
        /\ RecordsOf(db, call[p].username, call[p].keys[1]) # {}
        /\ EntriesOf(db, hist, call[p].username, call[p].keys[1]) = {}

\* C10: get_history yields one read-model for every history entry of the
\* row: with a None state for an entry whose state is None or "{}", with the
\* entry's fields otherwise.
C10_HistoryKeepsEmptyEntries ==
    \A p \in Procs :
        (Ended(p, "get_history") /\ ret[p].status = "ok") =>
            \A i \in RecordsOf(db, call[p].username, call[p].keys[1]) :
                /\ Len(ret[p].out) = Len(hist[i])
                /\ \A j \in DOMAIN hist[i] :
                      LET entry == hist[i][j]
                          state == ret[p].out[Len(hist[i]) + 1 - j].state
                      IN  IF entry.state = None \/ entry.state = Some(EmptyObjectText)
                          THEN state = None
                          ELSE /\ state # None
                               /\ Members(state.val) =
                                     {entry.state.val[n] : n \in DOMAIN entry.state.val}

\* set(K, S), delete(K), get_history(K): an entry without fields, then the
\* entry of S, on a key whose get fails.
C10_Witness ==
    \E p \in Procs :
        /\ Ended(p, "get_history") /\ ret[p].status = "ok"
        /\ Len(ret[p].out) = 2
        /\ ret[p].out[1].state = None
        /\ ret[p].out[2].state = Some([a |-> 1, b |-> 2])
        /\ GetFails(db, call[p].username, call[p].keys[1])

\* The rows a scan selects, on a table.
Selection(p, rows) == {ScanResults(p, rows)[i] : i \in DOMAIN ScanResults(p, rows)}

\* A scan of process p has ended and nothing was written since it started.
QuietScan(p) ==
    /\ pc[p] = "ret" /\ call[p].scope = Scope_user_state
    /\ call[p].op \in {"iter_all_for_block", "iter_all_for_course"}
    /\ db = pre[p]

\* The rows whose read-models a scan has yielded, in the order of the yields.
YieldedRows(p) ==
    [j \in DOMAIN ret[p].out |->
        {i \in DOMAIN db :
            /\ db[i].student = ret[p].out[j].username
            /\ db[i].module_state_key = ret[p].out[j].block_key
            /\ db[i].state # None
            /\ ret[p].out[j].state = loads(db[i].state.val)}]

\* C11: a scan of a course whose N rows with fields are more than a page
\* (no row of the course has a None state, nothing is written meanwhile)
\* yields N read-models: one of each row with fields, none twice.
C11_CourseScanComplete ==
    \A p \in Procs :
        LET sel == Selection(p, db)
            N == Cardinality({i \in sel : HasState(db[i])})
        IN  (QuietScan(p) /\ call[p].op = "iter_all_for_course"
                /\ (\A i \in sel : db[i].state # None)
                /\ N > call[p].per_page) =>
                /\ ret[p].status = "ok"
                /\ Len(ret[p].out) = N
                /\ \A i \in sel : HasState(db[i]) =>
                       Cardinality({j \in DOMAIN ret[p].out :
                                       i \in YieldedRows(p)[j]}) = 1

\* Three rows with fields in course c1, pages of two rows: the scan has
\* read two pages and yielded three read-models.
C11_Witness ==
    \E p \in Procs :
        /\ QuietScan(p) /\ call[p].op = "iter_all_for_course"
        /\ call[p].per_page = 2
        /\ \A i \in Selection(p, db) : HasState(db[i])
        /\ ret[p].status = "ok"
        /\ Len(ret[p].out) = 3

\* C12: on every table, rows with a None state and rows emptied by
\* delete_many included, the scan of a usage key and the scan of a course
\* (with or without a block type) end well, having yielded one read-model
\* of each selected row whose state has fields.
C12_ScansSkipEmptyRows ==
    \A p \in Procs :
        QuietScan(p) =>
            /\ ret[p].status = "ok"
            /\ Len(ret[p].out) =
                   Cardinality({i \in Selection(p, db) : HasState(db[i])})
            /\ \A i \in Selection(p, db) : HasState(db[i]) =>
                   \E j \in DOMAIN ret[p].out : i \in YieldedRows(p)[j]

\* C13: set_many for the anonymous user returns without an error and
\* without a warning, and the table is as the call found it.
C13_AnonymousNoOp ==
    \A p \in Procs :
        (call[p].op = "set_many" /\ call[p].scope = Scope_user_state
            /\ ResolveUser(call[p].client_user, call[p].username) = "AnonymousUser") =>
            /\ pc[p] = "ret"
            /\ ret[p].status = "ok"
            /\ ret[p].warnings = <<>>
            /\ db = pre[p]
            /\ \A i \in DOMAIN db : db[i].student # AnonUsername

\* set_many of two pairs for the anonymous user has returned on a table
\* that holds rows.
C13_Witness ==
    \E p \in Procs :
        /\ Ended(p, "set_many")
        /\ call[p].client_user = "AnonymousUser"
        /\ call[p].username = AnonUsername
        /\ Len(call[p].items) = 2
        /\ ret[p].status = "ok"
        /\ db # <<>>

\* C14: set is idempotent. After set(K, S) the key holds the fields of S
\* (C2), and a set(K, S) of fields the key holds already leaves the stored
\* fields as they are, whatever the row was before: absent, with a None
\* state, emptied or with fields.
C14_SetIdempotent ==
    \A p \in Procs :
        (Ended(p, "set_many") /\ Len(call[p].items) = 1) =>
            LET u == call[p].username
                K == call[p].items[1][1]
                S == call[p].items[1][2]
            IN  /\ ret[p].status = "ok"
                /\ Members(S) \subseteq StoredMembers(db, u, K)
                /\ Members(S) \subseteq StoredMembers(pre[p], u, K) =>
                       StoredMembers(db, u, K) = StoredMembers(pre[p], u, K)

\* set(K, S); set(K, S) with two fields in S: the two writes of this
\* behaviour have left the same state in the history of the key's row.
C14_Witness ==
    \E p \in Procs :
        /\ Ended(p, "set_many") /\ ret[p].status = "ok"
        /\ call[p].items = << <<"k1", [a |-> 1, b |-> 2]>> >>
        /\ now = 2
        /\ \E i \in RecordsOf(db, call[p].username, "k1") :
              /\ Len(hist[i]) >= 2
              /\ hist[i][Len(hist[i])].created = 2
              /\ hist[i][Len(hist[i]) - 1].created = 1
              /\ hist[i][Len(hist[i])].state = hist[i][Len(hist[i]) - 1].state
              /\ db[i].state = Some(dumps([a |-> 1, b |-> 2]))

\* C15: get_many raises nothing and yields one read-model, of the user's
\* own row, for every requested key whose row has fields, in one course or
\* in several; it yields nothing for a requested key with no row, a None
\* state or "{}", and nothing for a key that was not requested.
C15_GetManyYieldsPopulated ==
    \A p \in Procs :
        Ended(p, "get_many") =>
            LET u == call[p].username
                ks == {call[p].keys[n] : n \in DOMAIN call[p].keys}
                out == ret[p].out
            IN  /\ ret[p].status = "ok"
                /\ \A k \in ks :
                       Cardinality({j \in DOMAIN out : out[j].block_key = k}) =
                           IF Populated(pre[p], u, k) THEN 1 ELSE 0
                /\ \A j \in DOMAIN out :
                       /\ out[j].block_key \in ks
                       /\ out[j].username = u
                       /\ Members(out[j].state) \subseteq
                              StoredMembers(pre[p], u, out[j].block_key)
                       /\ call[p].fields = None =>
                              Members(out[j].state) =
                                  StoredMembers(pre[p], u, out[j].block_key)

\* get_many(alice, [k1, k2]) over two courses has yielded k1 alone: alice's
\* row of k2 is emptied, and bob has a row of k1 with fields.
C15_Witness ==
    \E p \in Procs :
        /\ Ended(p, "get_many") /\ ret[p].status = "ok"
        /\ call[p].username = "alice"
        /\ Len(call[p].keys) = 2
        /\ Len(ret[p].out) = 1
        /\ ret[p].out[1].block_key = "k1"
        /\ \E i \in RecordsOf(pre[p], "alice", "k2") :
              pre[p][i].state = Some(EmptyObjectText)
        /\ Populated(pre[p], "bob", "k1")

\* The position of a key among the pairs of p's set_many.
PairOf(p, key) == CHOOSE n \in DOMAIN call[p].items : call[p].items[n][1] = key

\* The keys of the warnings p's set_many has logged for a failed `what`.
Warned(p, what) ==
    {ret[p].warnings[n][2] :
        n \in {w \in DOMAIN ret[p].warnings : ret[p].warnings[w][1] = what}}

\* A write of the pair n of p's set_many is in the history of the key's row.
Committed(p, n) ==
    \E i \in RecordsOf(db, call[p].username, call[p].items[n][1]) :
        \E e \in DOMAIN hist[i] :
            /\ hist[i][e].state # None
            /\ Members(call[p].items[n][2]) \subseteq
                   {hist[i][e].state.val[m] : m \in DOMAIN hist[i][e].state.val}

\* C16: when the INSERT of get_or_create is rejected because another creator
\* has inserted the row and IntegrityError reaches set_many, the call ends
\* there: it returns without an exception and without a write for the pair
\* or for a pair after it, and the pairs before it stay written.
C16_CreateRaceAbandonsBatch ==
    /\ [](\A p \in Procs :
            (Ended(p, "set_many") /\ Warned(p, "get_or_create") # {}) =>
                /\ ret[p].status = "ok"
                /\ \A k \in Warned(p, "get_or_create") :
                       /\ ret[p].warnings[Len(ret[p].warnings)] =
                              <<"get_or_create", k>>
                       /\ \A n \in 1..(PairOf(p, k) - 1) :
                              call[p].items[n][1] \notin Warned(p, "save") =>
                                  Committed(p, n))
    /\ [][\A p \in Procs :
            (/\ pc[p] = "goc_create"
             /\ UniqueViolation(db, call[p].username,
                                call[p].items[loc[p].idx][1])
             /\ pc'[p] \notin {"goc_create", "save"}) =>
                /\ pc'[p] = "ret"
                /\ ret'[p].status = "ok"
                /\ ret'[p].warnings =
                       Append(loc[p].warnings,
                              <<"get_or_create", call[p].items[loc[p].idx][1]>>)
                /\ db' = db
                /\ hist' = hist]_vars

\* set_many over [K1, K2], K1 created by another caller in between: the
\* call has returned with the race logged and K2 has no row.
C16_Witness ==
    \E p \in Procs :
        /\ Ended(p, "set_many") /\ ret[p].status = "ok"
        /\ Len(call[p].items) = 2
        /\ ret[p].warnings = << <<"get_or_create", call[p].items[1][1]>> >>
        /\ RecordsOf(db, call[p].username, call[p].items[2][1]) = {}

\* C17: when the UPDATE of a found row is rejected with IntegrityError,
\* the stored state and the history stay as they are, the warning is
\* logged, and the loop goes on: to the next pair, or to the end of the
\* call, which returns without an exception. The pairs written before stay
\* written and the pairs after it are written.
C17_RejectedSaveGoesOn ==
    /\ [](\A p \in Procs :
            (Ended(p, "set_many") /\ Warned(p, "save") # {}
                /\ Warned(p, "get_or_create") = {}) =>
                /\ ret[p].status = "ok"
                /\ \A n \in DOMAIN call[p].items :
                       call[p].items[n][1] \notin Warned(p, "save") =>
                           Committed(p, n))
    /\ [][\A p \in Procs :
            (/\ pc[p] = "save"
             /\ \/ pc'[p] = "ret" /\ ret'[p].warnings # loc[p].warnings
                \/ pc'[p] = "goc_get" /\ loc'[p].warnings # loc[p].warnings) =>
                /\ db' = db
                /\ hist' = hist
                /\ IF loc[p].idx < Len(call[p].items)
                   THEN /\ pc'[p] = "goc_get"
                        /\ loc'[p].idx = loc[p].idx + 1
                        /\ loc'[p].warnings =
                               Append(loc[p].warnings,
                                      <<"save", call[p].items[loc[p].idx][1]>>)
                   ELSE /\ pc'[p] = "ret"
                        /\ ret'[p].status = "ok"]_vars

\* set_many over [K1, K2] whose UPDATE of K1's row was rejected has
\* returned: K1's row has no entry of the call and K2's fields are stored.
C17_Witness ==
    \E p \in Procs :
        /\ Ended(p, "set_many") /\ ret[p].status = "ok"
        /\ Len(call[p].items) = 2
        /\ ret[p].warnings = << <<"save", call[p].items[1][1]>> >>
        /\ ~Committed(p, 1)
        /\ Members(call[p].items[2][2]) \subseteq
               StoredMembers(db, call[p].username, call[p].items[2][1])

\* The <<name, value>> members of a state column.
StateMembers(state) ==
    IF state = None THEN {} ELSE {state.val[m] : m \in DOMAIN state.val}

\* C18: set_many merges into the state it has read, not into the state the
\* row has when it writes: a field another caller has stored in the row
\* between the read and the write is not in the row after the write, and
\* neither call fails.
C18_StaleMergeLosesUpdate ==
    [][\A p \in Procs :
          (pc[p] = "save" /\ pc'[p] # "save" /\ db' # db) =>
              LET id == loc[p].sm_id
                  S == call[p].items[loc[p].idx][2]
                  lost == {m \in StateMembers(db[id].state) :
                              /\ m \notin StateMembers(loc[p].sm_state)
                              /\ m[1] \notin DOMAIN S}
              IN  /\ StateMembers(db'[id].state) \cap lost = {}
                  /\ StateMembers(db'[id].state) =
                         Members(update(loads(IF loc[p].sm_state = None
                                              THEN EmptyObjectText
                                              ELSE loc[p].sm_state.val), S))
                  /\ pc'[p] = "ret" => ret'[p].status = "ok"]_vars

\* Two callers have set {a: 1} and {b: 2} on the row of k1 that both found,
\* both have returned without a warning, and the row lacks one of the two.
C18_Witness ==
    \E p, q \in Procs :
        /\ p # q
        /\ Ended(p, "set_many") /\ Ended(q, "set_many")
        /\ ret[p].status = "ok" /\ ret[q].status = "ok"
        /\ ret[p].warnings = <<>> /\ ret[q].warnings = <<>>
        /\ call[p].items = << <<"k1", [a |-> 1]>> >>
        /\ call[q].items = << <<"k1", [b |-> 2]>> >>
        /\ RecordsOf(pre[p], "alice", "k1") # {}
        /\ RecordsOf(pre[q], "alice", "k1") # {}
        /\ call[p].username = "alice" /\ call[q].username = "alice"
        /\ ~({<<"a", 1>>, <<"b", 2>>} \subseteq StoredMembers(db, "alice", "k1"))

\* C19: whatever the interleaving of the callers' set_many and delete_many,
\* the table never holds two rows of one user and one usage key.
C19_OneRowPerUserAndKey ==
    \A i, j \in DOMAIN db :
        (db[i].student = db[j].student
            /\ db[i].module_state_key = db[j].module_state_key) => i = j

\* Two callers have made the first write of alice's k2 at the same time,
\* both have returned, and there is one row.
C19_Witness ==
    \E p, q \in Procs :
        /\ p # q
        /\ Ended(p, "set_many") /\ Ended(q, "set_many")
        /\ call[p].items[1][1] = "k2" /\ call[q].items[1][1] = "k2"
        /\ RecordsOf(pre[p], "alice", "k2") = {}
        /\ RecordsOf(pre[q], "alice", "k2") = {}
        /\ Cardinality(RecordsOf(db, "alice", "k2")) = 1

\* C20: a row whose state is "{}" has held fields before: its history has
\* an earlier entry with fields.
C20_EmptyObjectWasPopulated ==
    \A i \in DOMAIN db :
        db[i].state = Some(EmptyObjectText) =>
            \E e \in DOMAIN hist[i] :
                /\ hist[i][e].state # None
                /\ hist[i][e].state # Some(EmptyObjectText)

\* The user, course and usage key of a row.
RowKey(row) == <<row.student, row.course_id, row.module_state_key>>

\* C21: the rows only grow. A step removes no row and changes no row's
\* user and key; a row is added only by the INSERT of a set_many for a user
\* of the directory on a key that has no row of the user. delete_many and
\* the reads add nothing, and delete_many on keys without a row returns
\* without an error and leaves the table as it is.
C21_RowsOnlyGrow ==
    /\ [](\A p \in Procs :
            /\ (pc[p] # "idle" /\ call[p].op # "set_many") =>
                   Len(db) = Len(pre[p])
            /\ (Ended(p, "delete_many")
                    /\ \A n \in DOMAIN call[p].keys :
                           RecordsOf(pre[p], call[p].username, call[p].keys[n]) = {}) =>
                   (ret[p].status = "ok" /\ db = pre[p]))
    /\ [][/\ Len(db') >= Len(db)
          /\ \A i \in DOMAIN db : RowKey(db'[i]) = RowKey(db[i])
          /\ Len(db') > Len(db) =>
                 /\ Len(db') = Len(db) + 1
                 /\ \E p \in Procs :
                        /\ pc[p] = "goc_create" /\ call[p].op = "set_many"
                        /\ call[p].username \in Usernames
                        /\ db'[Len(db')].student = call[p].username
                        /\ db'[Len(db')].module_state_key =
                               call[p].items[loc[p].idx][1]
                        /\ RecordsOf(db, call[p].username,
                                     call[p].items[loc[p].idx][1]) = {}]_vars

\* After a set has created alice's row of k2, a delete on a key of bob that
\* has no row has returned.
C21_Witness ==
    \E p \in Procs :
        /\ Ended(p, "delete_many") /\ ret[p].status = "ok"
        /\ call[p].username = "bob"
        /\ RecordsOf(pre[p], "bob", call[p].keys[1]) = {}
        /\ RecordsOf(db, "alice", "k2") # {}
        /\ db = pre[p]

\* The storage clock when p's call started: the latest stamp of a row of the
\* table the call found.
StartTime(p) ==
    LET stamps == {pre[p][i].modified : i \in DOMAIN pre[p]} \cup {0}
    IN  CHOOSE t \in stamps : \A u \in stamps : u <= t

\* The writes of a row since p's call started.
WritesSince(p, i) == {e \in DOMAIN hist[i] : hist[i][e].created > StartTime(p)}

C23_DeleteFieldsOnAnyRow ==
    \A p \in Procs :
        (Ended(p, "delete_many") /\ call[p].fields # None) =>
            /\ ret[p].status = "ok"
            /\ \A n \in DOMAIN call[p].keys :
                   \A m \in StoredMembers(db, call[p].username, call[p].keys[n]) :
                       m[1] \notin call[p].fields.val

\* The read-models a scan has yielded for row i of a table.
YieldsOf(p, rows, i) ==
    {j \in DOMAIN ret[p].out :
        /\ ret[p].out[j].username = rows[i].student
        /\ ret[p].out[j].block_key = rows[i].module_state_key}

\* C24: a scan, with or without writes of other callers between its pages,
\* goes through every row that was in its selection when it started once:
\* it ends well, no user and key is yielded twice, and a row that is as it
\* was when the scan started is yielded once when it has fields and not at
\* all when it has none.
C24_ScanExaminesOnce ==
    \A p \in Procs :
        (pc[p] = "ret" /\ call[p].scope = Scope_user_state
            /\ call[p].op \in {"iter_all_for_block", "iter_all_for_course"}) =>
            /\ ret[p].status = "ok"
            /\ \A i \in DOMAIN db : Cardinality(YieldsOf(p, db, i)) <= 1
            /\ \A i \in Selection(p, pre[p]) :
                   db[i] = pre[p][i] =>
                       Cardinality(YieldsOf(p, db, i)) =
                           IF db[i].state # None /\ HasState(db[i]) THEN 1 ELSE 0

\* The keys p's call is made for.
KeysOf(p) ==
    {call[p].items[n][1] : n \in DOMAIN call[p].items}
        \cup {call[p].keys[n] : n \in DOMAIN call[p].keys}

\* C25: during and after a set_many or a delete_many for a user over some
\* keys, every row of another user and every row of the user with another
\* key is as the call found it, and a row the call has added is one of the
\* user and of one of the keys; during and after a read the table is as
\* the call found it.
C25_OtherRowsUnchanged ==
    \A p \in Procs :
        pc[p] # "idle" =>
            IF call[p].op \in {"set_many", "delete_many"}
            THEN /\ Len(db) >= Len(pre[p])
                 /\ \A i \in DOMAIN db :
                        (db[i].student # call[p].username
                            \/ db[i].module_state_key \notin KeysOf(p)) =>
                            (i \in DOMAIN pre[p] /\ db[i] = pre[p][i])
            ELSE db = pre[p]

\* delete_many(alice, [k1]) has emptied alice's row of k1 on a table that
\* holds a row of bob and alice's row of k2 with fields.
C25_Witness ==
    \E p \in Procs :
        /\ Ended(p, "delete_many") /\ ret[p].status = "ok"
        /\ call[p].username = "alice" /\ call[p].keys = <<"k1">>
        /\ db # pre[p]
        /\ Populated(db, "alice", "k2")
        /\ \E i \in DOMAIN db : db[i].student = "bob"

====
